---------------------------- MODULE Spec2Model ----------------------------
(***************************************************************************)
(* Model of the category-pagination pipeline of zlibdownload.py            *)
(* (run_download_process) together with the Ledger helpers of cbconnect.py *)
(* and the category bootstrap of add_category.py.                          *)
(*                                                                         *)
(* One behaviour is a sequence of runs of run_download_process over the    *)
(* same categories file and the same Ledger.  Inside a run the model       *)
(* follows the control flow of the function statement group by statement   *)
(* group (pc), so that an operator interrupt (KeyboardInterrupt) or a      *)
(* process kill can fall between any two of them.                          *)
(*                                                                         *)
(* The page scraper is modelled by its contract at the call site           *)
(* (zlibdownload.py:245-288): a fetch error, or the ordered records of the *)
(* page, the same on every fetch of the same page.  Ledger checks, Ledger  *)
(* marks, file writes and state saves may each fail; a failed save leaves  *)
(* categories.json as it was, a process that dies inside save_json leaves  *)
(* it truncated.                                                           *)
(***************************************************************************)
EXTENDS Integers, Sequences, FiniteSets, TLC

\* Number of runs of run_download_process in one behaviour.
MaxRuns == 2

\* The file writes of one book are counted up to this number.
MaxWritten == 2

\* Book ids that occur in the catalog; 0 stands for a record without an id.
Ids == 1..3

\* A record of to_download.txt / books_data: its id and whether its line
\* splits into exactly four '|'-separated parts (zlibdownload.py:267-276).
Rec(i) == [id |-> i, ok |-> TRUE]
BadLine(i) == [id |-> i, ok |-> FALSE]

\* The categories file before the first run: per category the fields other
\* than next_page_to_scrape and books_processed_on_page.
Categories ==
  << [scrape_enabled |-> TRUE,  has_ids |-> TRUE, max_pages_to_scrape |-> 2],
     [scrape_enabled |-> FALSE, has_ids |-> TRUE, max_pages_to_scrape |-> 1],
     [scrape_enabled |-> TRUE,  has_ids |-> TRUE, max_pages_to_scrape |-> 1],
     [scrape_enabled |-> TRUE,  has_ids |-> FALSE, max_pages_to_scrape |-> 1] >>

Cats == DOMAIN Categories

\* The listings the external catalog may hold for one category: a sequence
\* of pages, each a sequence of records; pages beyond the last are empty.
Listings ==
  { << <<Rec(1), Rec(2), Rec(3)>> >>,
    << <<Rec(2), Rec(1)>>, <<Rec(3)>>, <<Rec(1)>> >>,
    << <<Rec(1), BadLine(2)>>, <<Rec(3), Rec(3)>> >>,
    << <<Rec(1), Rec(0)>> >> }

\* The listing of the categories after the second.
LastListing == << <<Rec(3), Rec(1)>> >>

\* The catalogs of a behaviour: the categories that a run skips have a
\* listing too.
Catalogs == { << l, l, LastListing, LastListing >> : l \in Listings }

VARIABLES
  disk,            \* categories.json: per category [next, done]
  mem,             \* the in-memory categories list of the running process
  diskFields,      \* categories.json: the other fields of each category
  memFields,       \* the in-memory list: the other fields of each category
  ledger,          \* book ids that have a document in Couchbase
  written,         \* history: per book id, how many times its file was
                   \* written to the output directory (counted up to MaxWritten)
  catalog,         \* per category, the listing of the external catalog
  pc,              \* position inside run_download_process ("idle": no run)
  runs,            \* runs started so far
  shouldDownload,  \* config download_books of the current run
  halt,            \* halt_run_due_to_limit
  ci,              \* index of the category of the outer loop
  newPages,        \* new_pages_scraped_this_run
  pageData,        \* page_book_data_iterable
  idx,             \* position of the first-pass loop (1-based)
  toDl,            \* books_to_download_this_page (positions in pageData)
  dlPos,           \* position of the second-pass loop in toDl
  attempts,        \* history: downloadBook calls made in this run
  dlFailed,        \* history: a downloadBook call failed in this run
  pre,             \* history: the category's cursor at the page-loop head
  db,              \* the Couchbase connection: "open" or "closed" (db_closed)
  diskOk,          \* categories.json holds a complete JSON document
  exitCause,       \* history: what ended the loops of the latest run
  markFailed,      \* history: a mark_as_downloaded call has failed
  known,           \* history: the ids the Ledger held when the run started
                   \* and whose checks have all succeeded in the run so far
  writeFailed,     \* history: a file of the page in hand could not be written
  tally,           \* downloads_left_today, initial_download_count_for_summary
                   \* and total_downloads_attempted_this_run
  entries,         \* categories.json as add_category.py loads and saves it:
                   \* the entries with their identifying fields
  lastAdd          \* history: how the latest add_category.py call ended

vars == << disk, mem, diskFields, memFields, ledger, written, catalog, pc,
           runs, shouldDownload, halt, ci, newPages, pageData, idx, toDl,
           dlPos, attempts, dlFailed, pre, db, diskOk, exitCause, markFailed,
           known, writeFailed, tally, entries, lastAdd >>

Cursor(p, k) == [next |-> p, done |-> k]

\* add_category.py: a new entry starts at page 1 with 0 processed.
NewEntry == Cursor(1, 0)

\* The records the page parser returns for page p of category c.
Page(c, p) == IF p \in DOMAIN catalog[c] THEN catalog[c][p] ELSE << >>

\* Reading to_download.txt: lines that do not split into 4 parts are dropped.
LoadLines(recs) == SelectSeq(recs, LAMBDA r : r.ok)

\* A mark that reports success and stores nothing.
MarkDropped(l, b) == l

\* cbconnect.mark_as_downloaded: upsert of the document of book b.
MarkAsDownloaded(l, b) == l \cup {b}

\* A check that reports True when the call errors.
CheckErrorMeansFound(b, error) == IF error THEN TRUE ELSE b \in ledger

\* A check that finds no document.
CheckNeverFinds(b, error) == FALSE

\* cbconnect.check_if_downloaded: exists(), or False when the call errors.
CheckIfDownloaded(b, error) == IF error THEN FALSE ELSE b \in ledger

\* The quota z.getDownloadsLeft() reports: none left.  The run goes on all
\* the same (lines 162-163) and no branch depends on the value; the
\* downloads that succeed take the counter below zero.
Quota == 0

\* lines 157-166: the value downloads_left_today starts with: the reported
\* quota, or the 0 of line 157 when the call raises.
DownloadsLeftOutcomes == {Quota, 0}

\* lines 157, 176-177: the counters of a run that has made no download.
Tally(n) == [left |-> n, initial |-> n, total |-> 0]

NoTally == Tally(0)

\* A state update block that leaves downloads_left_today as it is.
NotDecremented(t) == [t EXCEPT !.total = @ + 1]

\* lines 447-448: total_downloads_attempted_this_run += 1 and
\* downloads_left_today -= 1.
Decremented(t) == [t EXCEPT !.total = @ + 1, !.left = @ - 1]

\* The pipeline before its first run.
Installed ==
  /\ disk = [c \in Cats |-> NewEntry]
  /\ mem = disk
  /\ diskFields = Categories
  /\ memFields = diskFields
  /\ ledger \in SUBSET Ids
  /\ written = [b \in Ids |-> 0]
  /\ catalog \in Catalogs
  /\ pc = "idle"
  /\ runs = 0
  /\ shouldDownload = TRUE
  /\ halt = FALSE
  /\ ci = 1
  /\ newPages = 0
  /\ pageData = << >>
  /\ idx = 1
  /\ toDl = << >>
  /\ dlPos = 1
  /\ attempts = 0
  /\ dlFailed = FALSE
  /\ pre = NewEntry
  /\ db = "closed"
  /\ diskOk = TRUE
  /\ exitCause = "none"
  /\ markFailed = FALSE
  /\ known = {}
  /\ tally = NoTally
  /\ writeFailed = FALSE

\* dict.get of a key that the dictionary does not have.
NoId == -1
NoText == ""

\* extract_url_info: the URL matches neither pattern.
NoUrlInfo ==
  [type |-> "none", id |-> NoId, slug |-> NoText, search_term |-> NoText]

\* No add_category.py call has been made.
NoAdd == [url_info |-> NoUrlInfo, outcome |-> "none"]

Init ==
  /\ Installed
  /\ entries = << >>
  /\ lastAdd = NoAdd


(***************************************************************************)
(* Helpers of the run.                                                     *)
(***************************************************************************)

\* save_json(categories, categories_file): the whole list is written, or
\* the call fails and returns False.
SaveOutcomes == {TRUE, FALSE}

\* A save that reports its result and writes nothing.
SaveSkipped(ok, cats) == disk

\* categories.json after save_json(categories, categories_file).
Saved(ok, cats) == IF ok THEN cats ELSE disk

\* A save that writes the two cursor fields and no page budget.
SavedFieldsCut(ok, fields) == IF ok THEN [c \in Cats |-> [fields[c] EXCEPT !.max_pages_to_scrape = 0]] ELSE diskFields

\* save_json, lines 28-40: json.dump writes every entry of the list with
\* all its fields, in list order.
SavedFields(ok, fields) == IF ok THEN fields ELSE diskFields

\* A page advance that moves the cursor back instead of forward.
NextPageBackwards(current_page) == current_page - 1

\* line 503: next_page_to_start = current_page + 1
NextPageToStart(current_page) == current_page + 1

\* A failed download that leaves the halt flag down.
HaltNotRaised == FALSE

\* lines 470 and 478: the value halt_run_due_to_limit takes when
\* downloadBook returns nothing or raises.
HaltAfterFailedDownload == TRUE

\* line 235: the in-memory processed count at the start of a page iteration.
CountAtPageStart(k) == 0

\* A counter that moves by two for one confirmed record.
MarkPositionTwice(k) == k + 2

\* lines 322 and 437: the counter after one more confirmed record.
MarkPositionDone(k) == k + 1

\* A page that counts as fully processed whatever its counter says.
PageAlwaysProcessed(k, page_book_count) == TRUE

\* line 490: page_fully_processed
PageFullyProcessed(k, page_book_count) == k = page_book_count

\* The locals of one page iteration, dead outside of it.
NoPage ==
  /\ writeFailed' = FALSE
  /\ pageData' = << >>
  /\ idx' = 1
  /\ toDl' = << >>
  /\ dlPos' = 1

\* The locals of the loops, dead once control is in the finally clause.
NoLoop ==
  /\ NoPage
  /\ halt' = FALSE
  /\ ci' = 1
  /\ newPages' = 0
  /\ pre' = NewEntry

\* The variables that live only inside a run, once the process has ended.
Quiesce ==
  /\ pc' = "idle"
  /\ mem' = disk'
  /\ memFields' = diskFields'
  /\ known' = {}
  /\ tally' = NoTally
  /\ NoLoop
  /\ attempts' = 0
  /\ dlFailed' = FALSE

InRun == pc # "idle"

(***************************************************************************)
(* run_download_process, lines 101-197: load the configuration and the     *)
(* categories, connect, log in.                                            *)
(***************************************************************************)
RunStart ==
  /\ UNCHANGED << entries, lastAdd >>
  /\ pc = "idle"
  /\ UNCHANGED writeFailed
  /\ UNCHANGED tally
  /\ memFields' = diskFields
  /\ UNCHANGED diskFields
  /\ runs < MaxRuns
  /\ runs' = runs + 1
  /\ \E sd \in BOOLEAN : shouldDownload' = sd
  /\ mem' = disk
  /\ halt' = FALSE
  /\ ci' = 1
  /\ exitCause' = "none"
  /\ IF diskOk THEN /\ db' = "open"
                    /\ pc' = "login"
                    /\ known' = ledger
               ELSE UNCHANGED << db, pc, known >>
  /\ UNCHANGED << disk, ledger, written, catalog, newPages, pageData, idx,
                  toDl, dlPos, attempts, dlFailed, pre, diskOk >>
  /\ UNCHANGED markFailed

\* A cleanup that leaves the connection as it is.
CleanupSkipped(d) == d

\* cleanup_db, lines 141-146: closes the connection unless db_closed.
CleanupDb(d) == "closed"

(***************************************************************************)
(* Lines 148-153: log in; a failed login closes the connection and exits.  *)
(***************************************************************************)
Login ==
  /\ UNCHANGED << entries, lastAdd >>
  /\ pc = "login"
  /\ UNCHANGED writeFailed
  /\ UNCHANGED << diskFields, memFields >>
  /\ \E isLoggedIn \in BOOLEAN :
       IF isLoggedIn
         THEN /\ pc' = "cat"
              /\ \E n \in DownloadsLeftOutcomes :
                   tally' = IF shouldDownload THEN Tally(n) ELSE NoTally
              /\ UNCHANGED << db, known >>
         ELSE /\ db' = CleanupDb(db)
              /\ pc' = "idle"
              /\ known' = {}
              /\ UNCHANGED tally
  /\ UNCHANGED << disk, mem, ledger, written, catalog, runs, shouldDownload,
                  halt, ci,
                  newPages, pageData, idx, toDl, dlPos, attempts, dlFailed,
                  pre, diskOk, exitCause >>
  /\ UNCHANGED markFailed

\* A category loop that takes the same category again.
SameCategory(i) == i

\* line 199: `for i, category in enumerate(categories)` takes the next entry.
NextCategory(i) == i + 1

\* A category loop that skips the disabled categories only.
SkippedWhenDisabled(category) == ~category.scrape_enabled

\* lines 208-214: the categories the loop passes over.
Skipped(category) == ~category.scrape_enabled \/ ~category.has_ids

(***************************************************************************)
(* Outer loop head, lines 199-227.                                         *)
(***************************************************************************)
CategoryHead ==
  /\ UNCHANGED << entries, lastAdd >>
  /\ pc = "cat"
  /\ UNCHANGED writeFailed
  /\ UNCHANGED tally
  /\ UNCHANGED << diskFields, memFields, known >>
  /\ IF ci \notin Cats
       THEN /\ pc' = "finally"
            /\ ci' = 1
            /\ UNCHANGED newPages
       ELSE IF Skipped(memFields[ci])
         THEN /\ ci' = NextCategory(ci)
              /\ UNCHANGED << pc, newPages >>
         ELSE /\ newPages' = 0
              /\ pc' = "page"
              /\ UNCHANGED ci
  /\ UNCHANGED << disk, mem, ledger, written, catalog, runs, shouldDownload,
                  halt, pageData, idx, toDl, dlPos, attempts, dlFailed, pre >>
  /\ UNCHANGED << db, diskOk, exitCause, markFailed >>

\* A page loop that goes on whatever the budget.
BudgetIgnored(new_pages, max_pages) == TRUE

\* line 228: new_pages_scraped_this_run < max_pages, the budget half of
\* the page loop's condition.
BudgetLeft(new_pages, max_pages) == new_pages < max_pages

(***************************************************************************)
(* Page loop head, lines 228-243: the loop condition, then the reset of    *)
(* the in-memory processed count.                                          *)
(***************************************************************************)
PageHead ==
  /\ UNCHANGED << entries, lastAdd >>
  /\ pc = "page"
  /\ UNCHANGED writeFailed
  /\ UNCHANGED tally
  /\ UNCHANGED << diskFields, memFields, known >>
  /\ IF halt \/ ~BudgetLeft(newPages, memFields[ci].max_pages_to_scrape)
       THEN /\ pc' = "catEnd"
            /\ UNCHANGED << mem, pre >>
       ELSE /\ pre' = mem[ci]
            /\ mem' = [mem EXCEPT ![ci].done = CountAtPageStart(@)]
            /\ pc' = "scrape"
  /\ UNCHANGED << disk, ledger, written, catalog, runs, shouldDownload, halt,
                  ci, newPages, pageData, idx, toDl, dlPos, attempts,
                  dlFailed >>
  /\ UNCHANGED << db, diskOk, exitCause, markFailed >>

(***************************************************************************)
(* Lines 245-288: scrape the page and load its records.                    *)
(***************************************************************************)
ScrapeOutcomes == {"ok", "fetch_error", "read_error"}

Scrape ==
  /\ UNCHANGED << entries, lastAdd >>
  /\ pc = "scrape"
  /\ UNCHANGED writeFailed
  /\ UNCHANGED tally
  /\ UNCHANGED << diskFields, memFields, known >>
  /\ \E out \in ScrapeOutcomes :
       LET recs == Page(ci, mem[ci].next) IN
       IF out = "fetch_error"
         THEN /\ pc' = "catEnd"
              /\ UNCHANGED << pageData, idx, toDl >>
         ELSE IF Len(recs) = 0
           THEN /\ out = "ok"
                /\ pc' = "catEnd"
                /\ UNCHANGED << pageData, idx, toDl >>
           ELSE IF out = "read_error"
             THEN /\ shouldDownload
                  /\ pc' = "catEnd"
                  /\ UNCHANGED << pageData, idx, toDl >>
             ELSE /\ pageData' = IF shouldDownload THEN LoadLines(recs) ELSE recs
                  /\ idx' = 1
                  /\ toDl' = << >>
                  /\ pc' = "check"
  /\ UNCHANGED << disk, mem, ledger, written, catalog, runs, shouldDownload,
                  halt, ci, newPages, dlPos, attempts, dlFailed, pre >>
  /\ UNCHANGED << db, diskOk, exitCause, markFailed >>

\* A dry run that counts the records it lists.
ListedIsCounted(k) == k + 1

\* lines 325-340: the dry run writes the record to the report and goes on;
\* books_processed_on_page is left as it is.
CountAfterListing(k) == k

\* A first pass that takes a record without id like any other.
NoBookIdIgnored(book_data) == FALSE

\* lines 301-308: `if not book_id`, the record has no id.
NoBookId(book_data) == book_data.id = 0

\* A queue that takes the newest record first.
QueueInFront(q, i) == << i >> \o q

\* line 343: books_to_download_this_page.append((idx, book_data))
Queue(q, i) == Append(q, i)

(***************************************************************************)
(* First pass, lines 296-348: one record of the page per step.             *)
(***************************************************************************)
CheckRecord ==
  /\ UNCHANGED << entries, lastAdd >>
  /\ pc = "check"
  /\ UNCHANGED writeFailed
  /\ UNCHANGED tally
  /\ UNCHANGED << diskFields, memFields >>
  /\ idx <= Len(pageData)
  /\ LET r == pageData[idx] IN
       IF idx - 1 < mem[ci].done \/ NoBookId(r)
         THEN UNCHANGED << mem, toDl, known >>
         ELSE \E cb_err \in BOOLEAN :
                /\ known' = IF cb_err THEN known \ {r.id} ELSE known
                /\ IF CheckIfDownloaded(r.id, cb_err)
                     THEN /\ mem' = [mem EXCEPT
                                       ![ci].done = MarkPositionDone(@)]
                          /\ UNCHANGED toDl
                     ELSE /\ toDl' = IF shouldDownload THEN Queue(toDl, idx)
                                                       ELSE toDl
                          /\ mem' = IF shouldDownload
                                      THEN mem
                                      ELSE [mem EXCEPT
                                              ![ci].done = CountAfterListing(@)]
  /\ idx' = idx + 1
  /\ UNCHANGED << disk, ledger, written, catalog, pc, runs, shouldDownload,
                  halt, ci, newPages, pageData, dlPos, attempts, dlFailed,
                  pre >>
  /\ UNCHANGED << db, diskOk, exitCause, markFailed >>

\* lines 350-356: the first pass is over.
CheckDone ==
  /\ UNCHANGED << entries, lastAdd >>
  /\ pc = "check"
  /\ UNCHANGED writeFailed
  /\ UNCHANGED tally
  /\ UNCHANGED << diskFields, memFields, known >>
  /\ idx > Len(pageData)
  /\ pc' = IF shouldDownload /\ toDl # << >> THEN "dl" ELSE "complete"
  /\ idx' = 1
  /\ dlPos' = 1
  /\ UNCHANGED << disk, mem, ledger, written, catalog, runs, shouldDownload,
                  halt, ci, newPages, pageData, toDl, attempts, dlFailed,
                  pre >>
  /\ UNCHANGED << db, diskOk, exitCause, markFailed >>

(***************************************************************************)
(* Second pass, lines 358-480: the record being downloaded.                *)
(***************************************************************************)
CurrentBook == pageData[toDl[dlPos]].id

\* downloadBook returns nothing or raises ("failed"); the file cannot be
\* written ("write_error"); the file is written ("saved").
DownloadOutcomes == {"failed", "write_error", "saved"}

CountWritten(n) == IF n < MaxWritten THEN n + 1 ELSE n

\* A second pass that tries the same record again when its file could not
\* be written.
RetryAfterWriteError(k) == k

\* lines 409-414, 453-462: `continue`, or the except clause falls through
\* to the next queued record.
AfterWriteError(k) == k + 1

\* A second pass that counts the record as soon as its file is written.
CountBeforeMark == "incsave"

\* lines 426-428: "Mark and Save State ONLY AFTER successful save".
AfterFileWritten == "mark"

Download ==
  /\ UNCHANGED << entries, lastAdd >>
  /\ pc = "dl"
  /\ UNCHANGED tally
  /\ UNCHANGED << diskFields, memFields, known >>
  /\ IF dlPos > Len(toDl) \/ halt
       THEN /\ pc' = "complete"
            /\ toDl' = << >>
            /\ dlPos' = 1
            /\ UNCHANGED << written, halt, attempts, dlFailed, writeFailed >>
       ELSE /\ attempts' = attempts + 1
            /\ \E out \in DownloadOutcomes :
                 CASE out = "failed" ->
                        /\ halt' = HaltAfterFailedDownload
                        /\ dlFailed' = TRUE
                        /\ pc' = "complete"
                        /\ toDl' = << >>
                        /\ dlPos' = 1
                        /\ UNCHANGED << written, writeFailed >>
                   [] out = "write_error" ->
                        /\ dlPos' = AfterWriteError(dlPos)
                        /\ writeFailed' = TRUE
                        /\ UNCHANGED << written, halt, dlFailed, pc, toDl >>
                   [] out = "saved" ->
                        /\ written' = [written EXCEPT
                                         ![CurrentBook] = CountWritten(@)]
                        /\ pc' = AfterFileWritten
                        /\ UNCHANGED << halt, dlFailed, dlPos, toDl,
                                        writeFailed >>
  /\ UNCHANGED << disk, mem, ledger, catalog, runs, shouldDownload, ci,
                  newPages, pageData, idx, pre >>
  /\ UNCHANGED << db, diskOk, exitCause, markFailed >>

\* lines 428-432: cbconnect.mark_as_downloaded, which may fail.
Mark ==
  /\ UNCHANGED << entries, lastAdd >>
  /\ pc = "mark"
  /\ UNCHANGED writeFailed
  /\ UNCHANGED tally
  /\ UNCHANGED << diskFields, memFields, known >>
  /\ \E mark_success \in BOOLEAN :
       IF mark_success
         THEN /\ ledger' = MarkAsDownloaded(ledger, CurrentBook)
              /\ pc' = "incsave"
              /\ UNCHANGED << dlPos, markFailed >>
         ELSE /\ dlPos' = dlPos + 1
              /\ pc' = "dl"
              /\ markFailed' = TRUE
              /\ UNCHANGED ledger
  /\ UNCHANGED << disk, mem, written, catalog, runs, shouldDownload, halt,
                  ci, newPages, pageData, idx, toDl, attempts, dlFailed,
                  pre >>
  /\ UNCHANGED << db, diskOk, exitCause >>

\* A failed save after which the loops go on.
SaveResultIgnored(ok, continue) == continue

\* lines 439-442 and 509-512: where control goes once save_json has
\* returned; sys.exit(1) leaves through the finally clause.
AfterSave(ok, continue) == IF ok THEN continue ELSE "finally"

\* What the latest save_json of the loops reported.
SaveReport(ok) == IF ok THEN "none" ELSE "save_failed"

\* lines 434-449: the state update block; a failed save closes the
\* connection and exits the process through the finally clause.
IncrementAndSave ==
  /\ UNCHANGED << entries, lastAdd >>
  /\ pc = "incsave"
  /\ UNCHANGED << memFields, known >>
  /\ mem' = [mem EXCEPT ![ci].done = MarkPositionDone(@)]
  /\ \E ok \in SaveOutcomes :
       /\ disk' = Saved(ok, mem')
       /\ diskFields' = SavedFields(ok, memFields)
       /\ pc' = AfterSave(ok, "dl")
       /\ exitCause' = SaveReport(ok)
       /\ db' = IF ok THEN db ELSE CleanupDb(db)
       /\ IF pc' = "finally"
            THEN NoLoop /\ UNCHANGED tally
            ELSE /\ dlPos' = dlPos + 1
                 /\ tally' = Decremented(tally)
                 /\ UNCHANGED << halt, ci, newPages, pageData, idx, toDl,
                                 pre, writeFailed >>
  /\ UNCHANGED << ledger, written, catalog, runs, shouldDownload, attempts,
                  dlFailed, diskOk >>
  /\ UNCHANGED markFailed

(***************************************************************************)
(* Page completion logic, lines 486-526.                                   *)
(***************************************************************************)
PageCompletion ==
  /\ UNCHANGED << entries, lastAdd >>
  /\ pc = "complete"
  /\ UNCHANGED tally
  /\ UNCHANGED << diskFields, memFields, known >>
  /\ IF halt
       THEN /\ pc' = "catEnd"
            /\ UNCHANGED << mem, newPages >>
       ELSE IF PageFullyProcessed(mem[ci].done, Len(pageData))
         THEN /\ newPages' = newPages + 1
              /\ mem' = [mem EXCEPT ![ci].next = NextPageToStart(@)]
              /\ pc' = "advance"
         ELSE /\ pc' = "catEnd"
              /\ UNCHANGED << mem, newPages >>
  /\ NoPage
  /\ UNCHANGED << disk, ledger, written, catalog, runs, shouldDownload, halt,
                  ci, attempts, dlFailed, pre >>
  /\ UNCHANGED << db, diskOk, exitCause, markFailed >>

\* lines 505-512: reset the counter for the new page and save the state.
AdvanceReset ==
  /\ UNCHANGED << entries, lastAdd >>
  /\ pc = "advance"
  /\ UNCHANGED tally
  /\ UNCHANGED << memFields, known >>
  /\ mem' = [mem EXCEPT ![ci].done = 0]
  /\ \E ok \in SaveOutcomes :
       /\ disk' = Saved(ok, mem')
       /\ diskFields' = SavedFields(ok, memFields)
       /\ pc' = AfterSave(ok, "page")
       /\ exitCause' = SaveReport(ok)
       /\ db' = IF ok THEN db ELSE CleanupDb(db)
       /\ IF pc' = "finally"
            THEN NoLoop
            ELSE UNCHANGED << halt, ci, newPages, pageData, idx, toDl,
                              dlPos, pre, writeFailed >>
  /\ UNCHANGED << ledger, written, catalog, runs, shouldDownload, attempts,
                  dlFailed, diskOk >>
  /\ UNCHANGED markFailed

\* A category loop that ends with the first category that ends.
BreakAlways(halt_run_due_to_limit) == TRUE

\* A category loop that goes on with the halt flag up.
NoBreakOnHalt(halt_run_due_to_limit) == FALSE

\* lines 537-540: the break out of the category loop.
BreakOnHalt(halt_run_due_to_limit) == halt_run_due_to_limit

\* lines 529-540: the end of one category.
CategoryEnd ==
  /\ UNCHANGED << entries, lastAdd >>
  /\ pc = "catEnd"
  /\ UNCHANGED tally
  /\ UNCHANGED << diskFields, memFields, known >>
  /\ IF BreakOnHalt(halt)
             THEN /\ pc' = "finally"
                  /\ NoLoop
             ELSE /\ pc' = "cat"
                  /\ ci' = NextCategory(ci)
                  /\ UNCHANGED << halt, newPages, pageData, idx, toDl,
                                  dlPos, pre, writeFailed >>
  /\ UNCHANGED << disk, mem, ledger, written, catalog, runs, shouldDownload,
                  attempts, dlFailed >>
  /\ UNCHANGED << db, diskOk, exitCause, markFailed >>

(***************************************************************************)
(* The finally clause, lines 550-578: close the Ledger connection and, in  *)
(* download mode, save the state once more.                                *)
(***************************************************************************)
Finally ==
  /\ UNCHANGED << entries, lastAdd >>
  /\ pc = "finally"
  /\ db' = CleanupDb(db)
  /\ \E ok \in SaveOutcomes :
       /\ disk' = IF shouldDownload THEN Saved(ok, mem) ELSE disk
       /\ diskFields' = IF shouldDownload THEN SavedFields(ok, memFields)
                                          ELSE diskFields
  /\ UNCHANGED << ledger, written, catalog, runs, shouldDownload, diskOk,
                  exitCause >>
  /\ UNCHANGED markFailed
  /\ Quiesce

\* KeyboardInterrupt.  Inside the try block (lines 197-545) it is caught
\* and control goes to the finally clause; during the setup (lines
\* 133-196) nothing catches it and the process ends where it stands.
Interrupt ==
  /\ UNCHANGED << entries, lastAdd >>
  /\ pc \notin {"idle", "finally"}
  /\ UNCHANGED diskFields
  /\ exitCause' = "interrupt"
  /\ UNCHANGED << disk, ledger, written, catalog, runs, shouldDownload, db,
                  diskOk >>
  /\ IF pc = "login"
       THEN Quiesce
       ELSE /\ pc' = "finally"
            /\ NoLoop
            /\ UNCHANGED << mem, memFields, attempts, dlFailed, known,
                            tally >>
  /\ UNCHANGED markFailed

\* An exception that no handler inside the loops catches: z.search_scrape
\* raises at line 245 (the call is in no try block), the handler of lines
\* 546-549 prints it and control goes to the finally clause.
Unexpected ==
  /\ UNCHANGED << entries, lastAdd >>
  /\ pc = "scrape"
  /\ exitCause' = "exception"
  /\ pc' = "finally"
  /\ NoLoop
  /\ UNCHANGED << disk, mem, diskFields, memFields, ledger, written, catalog,
                  runs, shouldDownload, attempts, dlFailed, db, diskOk,
                  markFailed, known, tally >>

\* The positions where save_json is running, lines 439, 509 and 555.
Saving == pc \in {"incsave", "advance"} \/ (pc = "finally" /\ shouldDownload)

\* The process is killed: nothing more is executed, memory is lost.  A
\* kill inside save_json (lines 31-32: open(file_path, 'w') truncates, then
\* json.dump writes piece by piece) leaves a file that does not parse.
Kill ==
  /\ UNCHANGED << entries, lastAdd >>
  /\ pc # "idle"
  /\ UNCHANGED diskFields
  /\ \E torn \in BOOLEAN :
       /\ torn => (Saving /\ diskOk)
       /\ diskOk' = (diskOk /\ ~torn)
  /\ exitCause' = "kill"
  /\ UNCHANGED << disk, ledger, written, catalog, runs, shouldDownload, db >>
  /\ UNCHANGED markFailed
  /\ Quiesce

\* mark_manual_download.main, run by the operator between two runs of the
\* downloader: connect, then mark_as_downloaded for the given book id.
ManualMark ==
  /\ UNCHANGED << entries, lastAdd >>
  /\ pc = "idle"
  /\ UNCHANGED writeFailed
  /\ \E book_id \in Ids, success \in BOOLEAN :
       ledger' = IF success THEN MarkAsDownloaded(ledger, book_id)
                            ELSE ledger
  /\ UNCHANGED << disk, mem, diskFields, memFields, written, catalog, pc,
                  runs, shouldDownload, halt, ci, newPages, pageData, idx,
                  toDl, dlPos, attempts, dlFailed, pre, db, diskOk,
                  exitCause, markFailed, known, tally >>

Next ==
  \/ Unexpected
  \/ RunStart
  \/ ManualMark
  \/ Login
  \/ CategoryHead
  \/ PageHead
  \/ Scrape
  \/ CheckRecord
  \/ CheckDone
  \/ Download
  \/ Mark
  \/ IncrementAndSave
  \/ PageCompletion
  \/ AdvanceReset
  \/ CategoryEnd
  \/ Finally
  \/ Interrupt
  \/ Kill

Spec == Init /\ [][Next]_vars


(***************************************************************************)
(* Properties.                                                             *)
(***************************************************************************)

\* A step of the first pass that queried the Ledger for, or queued, the
\* record at position idx.
Processed == mem' # mem \/ toDl' # toDl

\* A step that called downloadBook.
Attempted == attempts' = attempts + 1

\* C1: between runs, for every category, every record at a position below
\* the persisted books_processed_on_page on page next_page_to_scrape has
\* its id in the Ledger.
C1_PersistedPrefixInLedger ==
  pc = "idle" =>
    \A c \in Cats :
      \A i \in 1..disk[c].done :
        i <= Len(Page(c, disk[c].next)) =>
          Page(c, disk[c].next)[i].id \in ledger

\* C2: over any sequence of runs, however they were interrupted, no book
\* id has its file written to the output directory more than once.
C2_NoDuplicateDownload == \A b \in Ids : written[b] <= 1

\* C3: whenever next_page_to_scrape of a category advances from p to p + 1,
\* every record the page parser returned for page p is in the Ledger.
C3_AdvanceOnlyWhenAllInLedger ==
  [][ (pc = "complete" /\ pc' = "advance") =>
        \A i \in DOMAIN Page(ci, mem[ci].next) :
          Page(ci, mem[ci].next)[i].id \in ledger ]_vars

\* C4: a run that resumes a page from a persisted cursor processes exactly
\* the remaining records: it makes no Ledger confirmation and no download
\* attempt for a record below the persisted books_processed_on_page.
C4_ResumeExactlyRemaining ==
  [][ /\ (pc = "check" /\ idx <= pre.done) => ~Processed
      /\ (pc = "dl" /\ Attempted) => toDl[dlPos] > pre.done ]_vars

\* C5: once a download attempt has failed in a run, no further download is
\* attempted in that run.
C5_NoDownloadAfterFailure ==
  [][ dlFailed => ~Attempted ]_vars

\* C5 witness: a download has failed in the first category while the last
\* category still lists a book that is not in the Ledger.
C5_Witness ==
  /\ dlFailed
  /\ pc = "catEnd"
  /\ ci = 1
  /\ \E i \in DOMAIN Page(3, mem[3].next) :
       Page(3, mem[3].next)[i].id \notin ledger

\* C6: a run with download_books = false changes neither the persisted
\* categories state nor the Ledger.
C6_DryRunChangesNothing ==
  [][ (InRun /\ ~shouldDownload) => (disk' = disk /\ ledger' = ledger) ]_vars

\* C7: next_page_to_scrape of a category never decreases, on disk across
\* runs and in memory within a run, and changes only by +1.
C7_NextPageMonotone ==
  [][ /\ \A c \in Cats :
           disk'[c].next \in {disk[c].next, disk[c].next + 1}
      /\ (InRun /\ pc' # "idle") =>
           \A c \in Cats :
             mem'[c].next \in {mem[c].next, mem[c].next + 1} ]_vars

\* C7 witness: in its second run a category stands at page 3, having
\* advanced in this run and in the one before.
C7_Witness ==
  /\ runs = 2
  /\ pc = "page"
  /\ mem[1].next = 3
  /\ disk[1].next = 3
  /\ newPages = 1

\* C8: books_processed_on_page of each category lies between 0 and the
\* number of records of the page next_page_to_scrape refers to (stated for
\* the persisted categories state, in every reachable state).
C8_CountWithinPage ==
  \A c \in Cats : disk[c].done \in 0..Len(Page(c, disk[c].next))

\* C9: books_processed_on_page is reset to 0 exactly when
\* next_page_to_scrape advances: a page advance (lines 504-505) ends with a
\* count of 0, and no other step of a run, all of which leave
\* next_page_to_scrape unchanged, lowers the count.
C9_ResetExactlyOnAdvance ==
  [][ /\ (pc = "advance" /\ pc' = "page") => mem'[ci].done = 0
      /\ (pc \notin {"idle", "advance"} /\ pc' # "idle") =>
           \A c \in Cats :
             mem'[c].next = mem[c].next => mem'[c].done >= mem[c].done ]_vars

\* C10: when a page returns zero records the cursor of the category is the
\* one it had before the page was tried.
C10_ZeroRecordsCursorUntouched ==
  [][ (pc = "scrape" /\ pc' = "catEnd" /\ Len(Page(ci, mem[ci].next)) = 0)
        => mem'[ci] = pre ]_vars


\* C11: when the fetch of a page fails (the page has records, yet the scrape
\* step ends the category's loop), the category's cursor that the run will
\* persist is the one it had before the fetch.
C11_FetchFailureLeavesCursor ==
  [][ (/\ pc = "scrape"
       /\ pc' = "catEnd"
       /\ shouldDownload
       /\ Len(Page(ci, mem[ci].next)) > 0)
        => mem'[ci] = pre ]_vars

\* C12: once a save_json of the loops has failed (after a confirmed record
\* or after a page advance), the run is in the finally clause and its only
\* step ends it: no page fetch, no Ledger check, no downloadBook call, no
\* file write and no Ledger mark follows in that run.
C12_FailedSaveAbortsRun ==
  [][ (exitCause = "save_failed" /\ InRun)
        => /\ pc = "finally"
           /\ pc' = "idle"
           /\ ledger' = ledger
           /\ written' = written
           /\ ~Attempted ]_vars

\* A save has failed while a record of a pending page is still absent from
\* the Ledger, and the run is on its way out.
C12_Witness ==
  /\ pc = "finally"
  /\ exitCause = "save_failed"
  /\ mem # disk
  /\ \E c \in {1, 3} : \E i \in DOMAIN Page(c, mem[c].next) :
       Page(c, mem[c].next)[i].id \notin ledger \cup {0}

\* C13: after the file of a book is written, whatever mark_as_downloaded
\* returns, the run goes on to the state update block (lines 434-449) that
\* adds 1 to books_processed_on_page, so that the page can still be
\* completed in this run.
C13_FailedMarkStillCounts ==
  [][ (pc = "mark" /\ pc' \notin {"finally", "idle"}) => pc' = "incsave" ]_vars

\* C13 as it holds: when the file is written and mark_as_downloaded fails,
\* the record is not counted and nothing is saved, the run goes on with the
\* next queued download, and the page is advanced only when every record
\* loaded for it is in the Ledger, so not while the unmarked record is
\* missing there.
C13_FailedMarkBlocksPage ==
  [][ /\ (pc = "mark" /\ pc' = "dl")
         => /\ mem' = mem
            /\ disk' = disk
            /\ ledger' = ledger
            /\ dlPos' = dlPos + 1
      /\ (pc = "complete" /\ pc' = "advance")
         => \A i \in DOMAIN pageData : pageData[i].id \in ledger ]_vars

\* The first queued book of the page was written in this first run, its
\* mark failed, and the second pass went on.
C13_Witness ==
  /\ runs = 1
  /\ pc = "dl"
  /\ dlPos = 2
  /\ written[pageData[toDl[1]].id] = 1
  /\ pageData[toDl[1]].id \notin ledger

\* C14: a Ledger check that fails counts as "not downloaded".  A first-pass
\* step counts the record as confirmed only when its id is in the Ledger (a
\* failed check never counts); when it does not count a record that has an
\* id, download mode queues the record; and the second pass leaves no queued
\* record without a downloadBook call unless a download failed.
C14_FailedCheckMeansNotDownloaded ==
  [][ /\ (pc = "check" /\ idx' = idx + 1)
         => /\ mem' # mem => pageData[idx].id \in ledger
            /\ (/\ mem' = mem
                /\ shouldDownload
                /\ pageData[idx].id # 0
                /\ idx - 1 >= mem[ci].done)
               => toDl' = Append(toDl, idx)
      /\ (pc = "dl" /\ pc' = "complete" /\ ~dlFailed')
         => dlPos > Len(toDl) ]_vars

\* The file of the first queued record is written although its id is in
\* the Ledger: its check failed and the download was made all the same.
C14_Witness ==
  /\ pc = "mark"
  /\ dlPos = 1
  /\ CurrentBook \in ledger

\* C15: a run that an operator interrupt has ended leaves the Ledger
\* connection closed and, in download mode, the in-memory categories
\* persisted, wherever in the run the interrupt arrived.
C15_InterruptRunsShutdown ==
  [][ (exitCause' = "interrupt" /\ pc' = "idle")
        => /\ db' = "closed"
           /\ shouldDownload => disk' = mem ]_vars

\* C16: whatever the point at which the process dies, categories.json holds
\* a complete collection (the one before the save or the one being saved).
C16_SaveAllOrNothing == diskOk

\* The books whose file was written and that the Ledger does not hold: the
\* work a later run does again.
Lost == {b \in Ids : written[b] > 0 /\ b \notin ledger}

\* The positions of the loaded page whose record is in the Ledger.
Confirmable == {i \in DOMAIN pageData : pageData[i].id \in ledger}

\* C17: as long as no Ledger mark has failed, every run, however and
\* wherever it was cut short, leaves at most one book written and not
\* recorded (the one in flight between file write and mark), so at most one
\* book per crash is downloaded again; and a run, rerun or not, never counts
\* more records of a page than the page has records in the Ledger.
C17_CrashLosesOneUnit ==
  /\ ~markFailed => Cardinality(Lost) <= runs
  /\ pc \in {"check", "dl", "mark", "complete"}
       => mem[ci].done <= Cardinality(Confirmable)

\* The second run is downloading again the one book the first run, cut short,
\* had written and not marked.
C17_Witness ==
  /\ runs = 2
  /\ exitCause = "none"
  /\ ~markFailed
  /\ pc = "mark"
  /\ written[CurrentBook] = 2
  /\ Lost = {CurrentBook}

\* A step of a running process that adds 1 to the processed count of a
\* category.
Incremented == pc' # "idle" /\ \E c \in Cats : mem'[c].done = mem[c].done + 1

InLedger(c, p) == {i \in DOMAIN Page(c, p) : Page(c, p)[i].id \in ledger}

\* The pages of category c all of whose records are in the Ledger.
ConfirmedPages(c) ==
  {p \in DOMAIN catalog[c] : InLedger(c, p) = DOMAIN Page(c, p)}

\* C19: in every persisted state and for every category, the persisted
\* books_processed_on_page is at most the number of records of page
\* next_page_to_scrape that are in the Ledger, and next_page_to_scrape - 1
\* is at most the number of pages whose records are all in the Ledger.
C19_DiskNeverAhead ==
  \A c \in Cats :
    /\ disk[c].done <= Cardinality(InLedger(c, disk[c].next))
    /\ disk[c].next - 1 <= Cardinality(ConfirmedPages(c))

\* The files written so far, over all books.
RECURSIVE WrittenUpTo(_)
WrittenUpTo(b) == IF b = 0 THEN 0 ELSE written[b] + WrittenUpTo(b - 1)

\* The first page of the first category in a first run in download mode has
\* gone through both passes, and every downloadBook call of the run has
\* produced a file and every mark has succeeded.
FirstPageAllSucceeded ==
  /\ pc = "complete"
  /\ runs = 1
  /\ ci = 1
  /\ newPages = 0
  /\ shouldDownload
  /\ ~dlFailed
  /\ ~markFailed
  /\ WrittenUpTo(Cardinality(Ids)) = attempts

\* C20: when a page has gone through both passes in download mode with
\* every download and mark succeeding, its k records that were absent from
\* the Ledger have been downloaded and marked, so every record of the page
\* is in the Ledger, and the cursor moves on to the next page.
C20_AllAbsentDownloadedThenAdvance ==
  [][ (FirstPageAllSucceeded /\ pc' \notin {"finally", "idle"})
        => /\ \A i \in DOMAIN Page(ci, mem[ci].next) :
                Page(ci, mem[ci].next)[i].id \in ledger
           /\ pc' = "advance"
           /\ mem'[ci].next = mem[ci].next + 1 ]_vars

\* The second pass over the first page of the first category, in a first
\* run in download mode, with every record of the page queued (all absent
\* from the Ledger) and every downloadBook call so far followed by a
\* written file and a successful mark.
FirstPageAllAbsentSoFarOk ==
  /\ pc = "dl"
  /\ runs = 1
  /\ ci = 1
  /\ newPages = 0
  /\ Len(toDl) = Len(Page(ci, mem[ci].next))
  /\ ~dlFailed
  /\ ~markFailed
  /\ WrittenUpTo(Cardinality(Ids)) = attempts

\* C21: when, on a page whose records are all absent from the Ledger, the
\* download at position j fails after the j downloads before it succeeded,
\* then exactly j files are written, the cursor in memory and on disk keeps
\* the page with books_processed_on_page = j, the halt flag is raised, and
\* from then on the run writes no file and marks no book.
C21_FailureAtPositionJ ==
  [][ /\ (FirstPageAllAbsentSoFarOk /\ dlFailed')
         => /\ halt'
            /\ written' = written
            /\ attempts = dlPos - 1
            /\ mem' = mem
            /\ mem[ci] = Cursor(pre.next, dlPos - 1)
            /\ disk' = disk
            /\ disk[ci] = mem[ci]
      /\ dlFailed => (written' = written /\ ledger' = ledger) ]_vars

\* The second download of a page of three absent records has failed after
\* the first succeeded: one file, count 1 on disk, halt raised, the third
\* record not in the Ledger.
C21_Witness ==
  /\ pc = "complete"
  /\ halt
  /\ runs = 1
  /\ ci = 1
  /\ attempts = 2
  /\ WrittenUpTo(Cardinality(Ids)) = 1
  /\ Len(pageData) = 3
  /\ disk[1] = Cursor(1, 1)
  /\ pageData[1].id \in ledger
  /\ pageData[3].id \notin ledger

\* The positions of the loaded page whose record has an id that the Ledger
\* does not hold.
Absent == {i \in DOMAIN pageData : pageData[i].id \notin ledger \cup {0}}

\* The first pass of a page is over in download mode, the records below
\* the count the page started with are all in the Ledger, and no record
\* was queued on a failed Ledger check.
ResumedPageChecked ==
  /\ pc = "check"
  /\ idx > Len(pageData)
  /\ shouldDownload
  /\ \A i \in 1..pre.done : i \in DOMAIN pageData /\ pageData[i].id \in ledger
  /\ \A k \in DOMAIN toDl : pageData[toDl[k]].id \notin ledger

\* C22: a run that starts from the state a halted page left (same page,
\* count j, the first j records in the Ledger) works on that same page,
\* queues no record at the positions 0..j-1 and queues every absent record
\* from position j onward in page order; the second pass then goes through
\* the queue front to back, one downloadBook call per queued record.
C22_ResumeRetriesFromJ ==
  [][ /\ ResumedPageChecked
         => /\ mem[ci].next = pre.next
            /\ \A k \in DOMAIN toDl : toDl[k] > pre.done
            /\ {toDl[k] : k \in DOMAIN toDl} = Absent
            /\ \A k \in DOMAIN toDl : k > 1 => toDl[k] > toDl[k - 1]
      /\ (pc \in {"dl", "mark", "incsave"} /\ pc' \in {"dl", "mark", "incsave"})
         => /\ toDl' = toDl
            /\ dlPos' \in {dlPos, dlPos + 1}
            /\ Attempted => dlPos \in DOMAIN toDl
            /\ \A b \in Ids : written'[b] # written[b] => b = CurrentBook ]_vars

\* The rerun of a page left at count 1 with its first record in the Ledger
\* has written the file of the record at position 1 as its first download.
C22_Witness ==
  /\ runs = 2
  /\ pc = "mark"
  /\ pre.done = 1
  /\ pageData[1].id \in ledger
  /\ dlPos = 1
  /\ toDl[1] = 2
  /\ attempts = 1

\* C23: inside the page loop the pages counted for the category never
\* exceed its max_pages_to_scrape; a step of a run moves a category's
\* next_page_to_scrape only for the current category, by one page, on a
\* page found fully processed, with budget left, and counts it; and a page
\* that errors, has no records or is left incomplete is not counted and
\* moves nothing.
C23_PageBudget ==
  [][ /\ pc \in {"page", "scrape", "check", "dl", "mark", "incsave",
                 "complete", "advance"}
         => newPages <= Categories[ci].max_pages_to_scrape
      /\ (InRun /\ pc' # "idle")
         => \A c \in Cats :
              mem'[c].next # mem[c].next
                => /\ c = ci
                   /\ pc = "complete"
                   /\ ~halt
                   /\ mem[c].done = Len(pageData)
                   /\ mem'[c].next = mem[c].next + 1
                   /\ newPages < Categories[c].max_pages_to_scrape
                   /\ newPages' = newPages + 1
      /\ (pc \in {"scrape", "complete"} /\ pc' = "catEnd")
         => (newPages' = newPages /\ mem'[ci].next = mem[ci].next)
      /\ newPages' > newPages => mem'[ci].next = mem[ci].next + 1 ]_vars

\* The category has used up its budget of two pages in this run and a
\* third page with records is waiting.
C23_Witness ==
  /\ pc = "catEnd"
  /\ ci = 1
  /\ ~halt
  /\ newPages = Categories[1].max_pages_to_scrape
  /\ mem[1].next = 3
  /\ Len(Page(1, 3)) > 0

\* C24: the halt flag goes up only with a failed download; while it is up
\* the run is at the page completion logic or at the end of the category,
\* the flag stays up and the category stays the same until control leaves
\* the loops; and after a failed download the run never again starts a
\* category, enters the page loop, fetches a page or checks a record.
C24_HaltStopsRun ==
  [][ /\ (halt' /\ ~halt) => dlFailed'
      /\ halt => pc \in {"complete", "catEnd"}
      /\ (halt /\ pc' \notin {"finally", "idle"})
         => (halt' /\ ci' = ci /\ pc' = "catEnd")
      /\ dlFailed => pc \in {"complete", "catEnd", "finally"} ]_vars

\* The halt flag is up in the first category, on its second page of the
\* run, with budget left for the category and a later category enabled.
C24_Witness ==
  /\ halt
  /\ pc = "complete"
  /\ ci = 1
  /\ newPages = 1
  /\ newPages < Categories[1].max_pages_to_scrape
  /\ Categories[3].scrape_enabled

\* A step of the running process itself, not an operator interrupt and not
\* a kill.
OwnStep == exitCause' \notin {"interrupt", "kill"}

\* C25: a page loop that ends on a scrape error, a page without records or
\* an incomplete page leaves the halt flag down; from the end of a category
\* with the flag down the run goes on to the next category of the file, and
\* from there to the one after it when that one is disabled, and into the
\* page loop and to the fetch of a page when it is enabled.
C25_BlockedCategoryIsLocal ==
  [][ /\ (pc = "scrape" /\ pc' = "catEnd") => ~halt'
      /\ (pc = "complete" /\ ~halt /\ pc' = "catEnd") => ~halt'
      /\ (pc = "catEnd" /\ ~halt /\ OwnStep)
         => (pc' = "cat" /\ ci' = ci + 1)
      /\ (pc = "cat" /\ ci \in Cats /\ OwnStep)
         => IF Categories[ci].scrape_enabled /\ Categories[ci].has_ids
              THEN pc' = "page" /\ ci' = ci /\ newPages' = 0 /\ ~halt'
              ELSE pc' = "cat" /\ ci' = ci + 1
      /\ (/\ pc = "page"
          /\ newPages = 0
          /\ ~halt
          /\ Categories[ci].max_pages_to_scrape > 0
          /\ OwnStep)
         => pc' = "scrape" ]_vars

\* The page of the last category is being fetched while the first category
\* was left on its first page with a record that is not in the Ledger.
C25_Witness ==
  /\ pc = "scrape"
  /\ ci = 3
  /\ mem[1].next = 1
  /\ \E i \in DOMAIN Page(1, 1) : Page(1, 1)[i].id \notin ledger \cup {0}

\* The categories that are disabled or lack an id or a slug.
NotToScrape ==
  {c \in Cats : ~Categories[c].scrape_enabled \/ ~Categories[c].has_ids}

\* C26: the page loop, with its page fetches, Ledger checks and downloads,
\* is never entered for a category that is disabled or lacks an id or slug,
\* and no step changes the next_page_to_scrape or books_processed_on_page
\* of such a category, in memory or on disk.
C26_SkippedCategoryUntouched ==
  [][ /\ pc \in {"page", "scrape", "check", "dl", "mark", "incsave",
                 "complete", "advance", "catEnd"}
         => ci \notin NotToScrape
      /\ \A c \in NotToScrape : mem'[c] = mem[c] /\ disk'[c] = disk[c] ]_vars

\* The loop is past the disabled category and past the one without ids,
\* after work on the categories around them has been saved.
C26_Witness ==
  /\ pc = "cat"
  /\ ci = 5
  /\ disk[1] # NewEntry
  /\ disk[3] # NewEntry
  /\ disk[2] = NewEntry
  /\ disk[4] = NewEntry

\* C27: no step adds, deletes or reorders categories or changes a field of
\* a category other than next_page_to_scrape and books_processed_on_page,
\* in the list in memory or in the saved list.
C27_OnlyCursorFieldsChange ==
  [][ /\ memFields' = memFields
      /\ diskFields' = diskFields
      /\ DOMAIN mem' = DOMAIN mem
      /\ DOMAIN disk' = DOMAIN disk ]_vars

\* A run has ended after saving new cursors for two categories.
C27_Witness ==
  /\ pc = "idle"
  /\ runs = 1
  /\ disk[1].next = 3
  /\ disk[3].next = 2
  /\ diskFields = Categories

\* C28: once mark_as_downloaded has succeeded for an id (in a run or from
\* mark_manual_download), a check of that id that does not error returns
\* True; no step, a second mark included, removes an id from the Ledger; and
\* a run makes no downloadBook call for an id that the Ledger held when the
\* run started and whose checks have not errored in the run.
C28_MarkedIdNotDownloadedAgain ==
  [][ /\ \A b \in Ids : ledger' = MarkAsDownloaded(ledger, b)
                          => CheckIfDownloaded(b, FALSE)'
      /\ ledger \subseteq ledger'
      /\ Attempted => CurrentBook \notin known ]_vars

\* The second run is past the first pass of a page that lists a book whose
\* file was written and marked before the run: it has queued other records
\* of the page and not that one.
C28_Witness ==
  /\ runs = 2
  /\ pc = "dl"
  /\ Len(toDl) > 0
  /\ \E i \in DOMAIN pageData :
       /\ pageData[i].id \in known
       /\ written[pageData[i].id] > 0
       /\ \A k \in DOMAIN toDl : toDl[k] # i

\* C29: no downloadBook call is made for a book id that the Ledger holds at
\* the moment of the call.
C29_NoAttemptForLedgerId ==
  [][ Attempted => CurrentBook \notin ledger ]_vars

\* C30: on a page retried with a persisted books_processed_on_page = k > 0,
\* the first-pass steps for the first k records make no Ledger query (they
\* neither count nor queue the record), and no downloadBook call is made
\* for one of the first k records.
C30_RetrySkipsPersistedPrefix ==
  [][ /\ (pre.done > 0 /\ pc = "check" /\ idx' = idx + 1 /\ idx <= pre.done)
         => (mem' = mem /\ toDl' = toDl /\ known' = known)
      /\ (pre.done > 0 /\ Attempted) => toDl[dlPos] > pre.done ]_vars

C32_WriteThenMarkThenCount ==
  [][ /\ (pc = "dl" /\ written' # written) => pc' = "mark"
      /\ pc = "mark" => written[CurrentBook] > 0
      /\ (pc = "mark" /\ ledger' # ledger)
         => (pc' = "incsave" /\ mem' = mem /\ disk' = disk)
      /\ (InRun /\ ledger' # ledger) => pc = "mark"
      /\ pc = "incsave" => (written[CurrentBook] > 0 /\ CurrentBook \in ledger)
      /\ (pc \in {"dl", "mark", "incsave"} /\ mem' # mem /\ pc' # "idle")
         => /\ pc = "incsave"
            /\ mem' = [mem EXCEPT ![ci].done = mem[ci].done + 1]
            /\ disk' \in {mem', disk}
      /\ (pc \in {"dl", "mark", "incsave"} /\ disk' # disk /\ pc' # "idle")
         => pc = "incsave" ]_vars

\* The file of a book that the Ledger did not hold when the run started is
\* written and its id marked; the count is about to be incremented.
C32_Witness ==
  /\ pc = "incsave"
  /\ written[CurrentBook] = 1
  /\ CurrentBook \in ledger
  /\ CurrentBook \notin known
  /\ mem[ci].done = 0

\* C33: downloads_left_today goes down by exactly 1 at every state update
\* block whose save succeeded (a confirmed download) and changes at no
\* other step of the loops, and at every point of the loops it equals the
\* initial count minus the number of confirmed downloads of the run.
C33_DownloadsLeftCountsConfirmed ==
  [][ /\ (pc = "incsave" /\ pc' = "dl")
         => /\ tally'.left = tally.left - 1
            /\ disk' = mem'
            /\ CurrentBook \in ledger
      /\ (pc \notin {"idle", "login"} /\ pc' # "idle"
          /\ tally'.left # tally.left)
         => (pc = "incsave" /\ pc' = "dl")
      /\ pc \notin {"idle", "login"}
         => /\ tally.left = tally.initial - tally.total
            /\ tally.initial \in DownloadsLeftOutcomes
            /\ tally'.initial = tally.initial \/ pc' = "idle" ]_vars

\* Two downloads of a run are confirmed and the run is in its summary.
C33_Witness ==
  /\ pc = "finally"
  /\ tally.total = 2
  /\ tally.left = tally.initial - 2
  /\ attempts = 3

\* C34: no step taken inside the loops ends the run by itself (the process
\* being killed apart): an error of a collaborator leaves the process in the
\* loops or takes it to the finally clause, and the finally clause closes
\* the Ledger connection and, in download mode, attempts the final save.
C34_ErrorsEndInCleanup ==
  [][ /\ (pc \notin {"idle", "login", "finally"} /\ exitCause' # "kill")
         => pc' # "idle"
      /\ (pc = "scrape" /\ exitCause' = "exception") => pc' = "finally"
      /\ (pc = "finally" /\ exitCause' # "kill")
         => /\ pc' = "idle"
            /\ db' = "closed"
            /\ disk' \in (IF shouldDownload THEN {mem, disk} ELSE {disk}) ]_vars

\* A run that an exception of the page fetch has ended has closed the
\* Ledger connection and saved the count of its first pass.
C34_Witness ==
  /\ pc = "idle"
  /\ exitCause = "exception"
  /\ db = "closed"
  /\ runs = 1
  /\ disk[1] = Cursor(2, 0)
  /\ disk[3] = NewEntry

\* The longest page of the listings and the largest page budget.
PageLen ==
  LET lens == UNION { { Len(l[p]) : p \in DOMAIN l } :
                      l \in Listings \cup {LastListing} }
  IN  CHOOSE m \in lens : \A n \in lens : n <= m

Budget ==
  LET budgets == { Categories[c].max_pages_to_scrape : c \in Cats }
  IN  CHOOSE m \in budgets : \A n \in budgets : n <= m

\* The steps a page iteration still has before it, at most.
PageRank ==
  CASE pc = "complete" -> 0
    [] pc = "incsave"  -> 1 + 3 * (PageLen + 1 - dlPos)
    [] pc = "mark"     -> 2 + 3 * (PageLen + 1 - dlPos)
    [] pc = "dl"       -> 3 + 3 * (PageLen + 1 - dlPos)
    [] pc = "check"    -> 4 + 3 * (PageLen + 1) + (PageLen + 1 - idx)
    [] pc = "scrape"   -> 5 + 4 * (PageLen + 1)
    [] pc = "page"     -> 6 + 4 * (PageLen + 1)
    [] pc = "advance"  -> 7 + 4 * (PageLen + 1)

PageTop == 8 + 4 * (PageLen + 1)

\* The steps the loop of one category still has before it, at most.
CategoryRank ==
  CASE pc = "catEnd" -> 0
    [] pc = "cat"    -> 1 + PageTop * (Budget + 1)
    [] OTHER         -> 1 + PageTop * (Budget - newPages) + PageRank

CategoryTop == 2 + PageTop * (Budget + 1)

\* The steps a run still has before it, at most.
Rank ==
  CASE pc = "idle"    -> 0
    [] pc = "finally" -> 1
    [] pc = "login"   -> 2 + CategoryTop * (Cardinality(Cats) + 1)
    [] OTHER          -> 2 + CategoryTop * (Cardinality(Cats) + 1 - ci)
                           + CategoryRank

\* C35: every run terminates.  Every step of a run lowers a measure that is
\* a natural number; a page iteration starts only while fewer than
\* max_pages_to_scrape pages have been completed for the category in the
\* run, and it ends by leaving the page loop or by completing the page and
\* raising the completed-page counter by one; the category loop never goes
\* back to a category.
C35_RunTerminates ==
  [][ /\ Rank \in Nat
      /\ InRun => Rank' < Rank
      /\ (pc = "page" /\ pc' = "scrape")
         => newPages < Categories[ci].max_pages_to_scrape
      /\ (pc = "complete" /\ pc' \notin {"catEnd", "finally", "idle"})
         => (pc' = "advance" /\ newPages' = newPages + 1)
      /\ (InRun /\ pc' \notin {"finally", "idle"}) => ci' >= ci ]_vars

\* The run has come to the end of the category list after completing as
\* many pages of the first category as its budget allows.
C35_Witness ==
  /\ pc = "cat"
  /\ ci \notin Cats
  /\ mem[1].next = 1 + Categories[1].max_pages_to_scrape
  /\ mem[3].next = 2

\* C36: a downloadBook call whose file cannot be written marks nothing,
\* counts nothing, saves nothing and leaves the halt flag down; the second
\* pass goes on with the next queued record; and the page completion logic
\* finds the count below the record count, so the page loop ends without
\* advancing next_page_to_scrape.
C36_WriteErrorLeavesPageIncomplete ==
  [][ /\ (pc = "dl" /\ Attempted /\ pc' = "dl")
         => /\ writeFailed'
            /\ ledger' = ledger /\ written' = written
            /\ mem' = mem /\ disk' = disk
            /\ ~halt'
            /\ toDl' = toDl /\ dlPos' = dlPos + 1
      /\ (writeFailed /\ pc = "dl" /\ dlPos <= Len(toDl) /\ OwnStep)
         => (Attempted /\ CurrentBook = pageData[toDl[dlPos]].id)
      /\ writeFailed => mem[ci].done < Len(pageData)
      /\ (writeFailed /\ pc' # "idle") => mem'[ci].next = mem[ci].next
      /\ (writeFailed /\ pc = "complete" /\ OwnStep) => pc' = "catEnd" ]_vars

\* The file of one queued record could not be written, the next queued
\* record was downloaded and confirmed, and the page is one record short.
C36_Witness ==
  /\ pc = "complete"
  /\ writeFailed
  /\ ~halt
  /\ attempts = 2
  /\ tally.total = 1
  /\ mem[ci].done = Len(pageData) - 1

\* The categories whose page in hand lists a record without id.
OnPageWithNoId ==
  {c \in Cats : \E i \in DOMAIN Page(c, mem[c].next) :
                  Page(c, mem[c].next)[i] = Rec(0)}

\* C37: a record without id is passed over by the first pass (no Ledger
\* query, no count, no queueing); while the page in hand lists such a
\* record the count stays below the record count, the page completion
\* logic does not advance, and no step of any run changes the category's
\* next_page_to_scrape, in memory or on disk.
C37_NoIdBlocksPage ==
  [][ /\ (pc = "check" /\ idx' = idx + 1 /\ pageData[idx].id = 0)
         => (mem' = mem /\ toDl' = toDl /\ known' = known)
      /\ (pc \in {"check", "dl", "mark", "incsave", "complete"}
          /\ ci \in OnPageWithNoId)
         => /\ mem[ci].done < Len(pageData)
            /\ pc' # "advance"
      /\ \A c \in OnPageWithNoId :
           mem'[c].next = mem[c].next /\ disk'[c].next = disk[c].next ]_vars

\* The second run has processed the page with the record without id again:
\* the other record of the page is confirmed and the page is still short.
C37_Witness ==
  /\ runs = 2
  /\ pc = "complete"
  /\ ci = 1
  /\ pageData = << Rec(1), Rec(0) >>
  /\ mem[1] = Cursor(1, 1)
  /\ disk[1] = Cursor(1, 1)

\* C38: in a dry run the first pass lists a record that the Ledger does not
\* hold without counting it, so the count of a page with such a record
\* stays below the record count, and after that page the page loop of the
\* category ends with next_page_to_scrape as it was, whatever is left of
\* the page budget.
C38_DryRunStopsAtAbsentPage ==
  [][ (~shouldDownload /\ InRun)
        => /\ (pc = "check" /\ idx' = idx + 1 /\ idx \in Absent)
              => (mem' = mem /\ toDl' = toDl)
           /\ (pc \in {"check", "complete"} /\ Absent # {})
              => /\ mem[ci].done < Len(pageData)
                 /\ pc' \in {"check", "complete", "catEnd", "finally", "idle"}
                 /\ pc' # "idle" => mem'[ci].next = mem[ci].next
           /\ (pc = "complete" /\ Absent # {} /\ OwnStep)
              => pc' = "catEnd"
           /\ ledger' = ledger ]_vars

\* A dry run has completed the first page of a category, has met a record
\* that the Ledger does not hold on the second, and has ended the page loop
\* of the category with a page of its budget left.
C38_Witness ==
  /\ ~shouldDownload
  /\ pc = "catEnd"
  /\ ci = 1
  /\ newPages = 1
  /\ newPages < Categories[1].max_pages_to_scrape
  /\ mem[1] = Cursor(2, 0)
  /\ \E i \in DOMAIN Page(1, 2) : Page(1, 2)[i].id \notin ledger \cup {0}

\* C39: a run that has ended otherwise than by the process being killed has
\* closed the Ledger connection it had established.
C39_ClosedOnEveryExit ==
  (pc = "idle" /\ exitCause # "kill") => db = "closed"

(***************************************************************************)
(* add_category.py: append an entry for a category URL or a search URL.    *)
(***************************************************************************)

\* The variables of the pipeline.
pipeline == << disk, mem, diskFields, memFields, ledger, written, catalog, pc,
               runs, shouldDownload, halt, ci, newPages, pageData, idx, toDl,
               dlPos, attempts, dlFailed, pre, db, diskOk, exitCause,
               markFailed, known, writeFailed, tally >>

\* A URL of the command line, by the parts that the two patterns of
\* extract_url_info look at: the digits and the slug after /category/, and
\* the encoded term after /s/ (NoText: the part is absent).
Url(digits, slug, term) == [digits |-> digits, slug |-> slug, term |-> term]

Urls ==
  { Url("1", "a", NoText), Url("01", "b", NoText), Url("2", "a", "z"),
    Url(NoText, NoText, "x+y"), Url(NoText, NoText, "x%20y"),
    Url(NoText, NoText, "z"), Url(NoText, NoText, NoText) }

\* int(category_match.group(1))
IntOf(digits) ==
  CASE digits = "1" -> 1
    [] digits = "01" -> 1
    [] digits = "2" -> 2

\* unquote_plus(encoded_term)
UnquotePlus(term) ==
  CASE term = "x+y" -> "x y"
    [] term = "x%20y" -> "x y"
    [] term = "z" -> "z"

\* The category pattern is tried first, then the search pattern.
extract_url_info(url) ==
  IF url.digits # NoText
  THEN [type |-> "category", id |-> IntOf(url.digits), slug |-> url.slug,
        search_term |-> NoText]
  ELSE IF url.term # NoText
  THEN [type |-> "search", id |-> NoId, slug |-> NoText,
        search_term |-> UnquotePlus(url.term)]
  ELSE NoUrlInfo

\* The heading of the category page, or the slug when the page cannot be
\* fetched or has no heading.
fetch_category_name(slug, fetched) == IF fetched THEN "h2" ELSE slug

\* entry_name; the name of a search entry is made of its search term.
EntryName(url_info, fetched) ==
  IF url_info.type = "category"
  THEN fetch_category_name(url_info.slug, fetched)
  ELSE url_info.search_term

\* A duplicate check that compares category ids only.
DuplicateByIdOnly(existing_entry, url_info) ==
  url_info.type = "category" /\ existing_entry.id = url_info.id

\* The duplicate check of one existing entry.
IsDuplicate(existing_entry, url_info) ==
  \/ url_info.type = "category" /\ existing_entry.id = url_info.id
  \/ url_info.type = "search"
       /\ existing_entry.search_term = url_info.search_term

duplicate_found(categories, url_info) ==
  \E i \in DOMAIN categories : IsDuplicate(categories[i], url_info)

max_order(categories) ==
  LET orders == { categories[i].order_to_download : i \in DOMAIN categories }
                  \cup {0}
  IN  CHOOSE m \in orders : \A n \in orders : n <= m

new_entry(url_info, entry_name, next_order) ==
  [name |-> entry_name,
   scrape_enabled |-> FALSE,
   max_pages_to_scrape |-> 10,
   next_page_to_scrape |-> NewEntry.next,
   books_processed_on_page |-> NewEntry.done,
   order_to_download |-> next_order,
   id |-> url_info.id,
   slug |-> url_info.slug,
   search_term |-> url_info.search_term]

\* How main() ends: exit 1 for a URL that matches no pattern, exit 0 with no
\* change for a duplicate, the entry appended and saved, or exit 1 when the
\* save fails.
AddOutcome(categories, url_info, saved) ==
  IF url_info.type = "none" THEN "invalid"
  ELSE IF duplicate_found(categories, url_info) THEN "duplicate"
  ELSE IF saved THEN "added"
  ELSE "save_failed"

\* One call of add_category.py.
AddCategory ==
  /\ UNCHANGED pipeline
  /\ \E url \in Urls, fetched \in BOOLEAN, saved \in SaveOutcomes :
       LET url_info == extract_url_info(url)
           categories == entries
           outcome == AddOutcome(categories, url_info, saved)
           next_order == max_order(categories) + 1
       IN  /\ entries' =
                IF outcome = "added"
                THEN Append(categories,
                            new_entry(url_info, EntryName(url_info, fetched),
                                      next_order))
                ELSE categories
           /\ lastAdd' = [url_info |-> url_info, outcome |-> outcome]

\* categories.json when the calls begin: absent, or holding one category
\* that the operator has enabled and the pipeline has worked on.
StartFiles ==
  { << >> } \cup
  { << [new_entry(extract_url_info(Url("1", "a", NoText)), "a", 1)
          EXCEPT !.scrape_enabled = TRUE,
                 !.next_page_to_scrape = p,
                 !.books_processed_on_page = k] >> :
      p \in 1..2, k \in 0..1 }

InitAdd ==
  /\ Installed
  /\ entries \in StartFiles
  /\ lastAdd = NoAdd

NextAdd ==
  \/ AddCategory

\* A sequence of add_category.py calls between runs of the pipeline.
SpecAdd == InitAdd /\ [][NextAdd]_vars

\* Two entries with the same category id or the same search term.
SharedKey(e, f) ==
  \/ e.id # NoId /\ e.id = f.id
  \/ e.search_term # NoText /\ e.search_term = f.search_term

NoSharedKey(categories) ==
  \A i, j \in DOMAIN categories :
    i # j => ~SharedKey(categories[i], categories[j])

\* The file has an entry for the category id or the search term of the URL.
HasEntryFor(categories, url_info) ==
  \E i \in DOMAIN categories :
    \/ url_info.id # NoId /\ categories[i].id = url_info.id
    \/ url_info.search_term # NoText
         /\ categories[i].search_term = url_info.search_term

\* C40: a call of add_category.py for a URL whose category id or search
\* term has an entry reports a duplicate and leaves categories.json as it
\* was; no two entries of the file share a category id or a search term; and
\* a call changes no existing entry, it appends at most one.
C40_AddCategoryIdempotent ==
  [][ /\ NoSharedKey(entries) /\ NoSharedKey(entries')
      /\ HasEntryFor(entries, lastAdd'.url_info)
           => (entries' = entries /\ lastAdd'.outcome = "duplicate")
      /\ lastAdd'.outcome = "duplicate"
           => HasEntryFor(entries, lastAdd'.url_info)
      /\ Len(entries') \in { Len(entries), Len(entries) + 1 }
      /\ \A i \in DOMAIN entries : entries'[i] = entries[i] ]_vars

\* A search URL was given whose decoded term has an entry; the file holds a
\* category that the pipeline has advanced, and further entries.
C40_Witness ==
  /\ lastAdd.outcome = "duplicate"
  /\ lastAdd.url_info.type = "search"
  /\ Len(entries) >= 3
  /\ entries[1].next_page_to_scrape = 2
  /\ \E i \in DOMAIN entries : entries[i].search_term = "x y"

=============================================================================
